---- MODULE Spec2Model ----
(***************************************************************************)
(* A model of cpwebapi/oauth_utils.py: the OAuth 1.0a helper functions    *)
(* used for the Live Session Token handshake.                              *)
(*                                                                         *)
(* The module is a collection of pure functions.  Each function is an     *)
(* operator that computes what the Python code computes; a Python str is  *)
(* a sequence of one-character strings, a bytes object a sequence of      *)
(* integers in 0..255, a dict a sequence of <<key, value>> pairs in       *)
(* insertion order.  Each specification draws the arguments of a call in  *)
(* its Init and applies the function in an action.                        *)
(***************************************************************************)
EXTENDS Integers, Sequences, FiniteSets, TLC

VARIABLES pc, fn, args, ret

vars == <<pc, fn, args, ret>>

\* Python's None
None == "None"

(***************************************************************************)
(* Bounds of the model.                                                    *)
(***************************************************************************)
\* to_byte_array is applied to every x with at most MaxBits bits
MaxBits == 16

\* the maps of one generate_base_string call hold at most MaxPairs entries together
MaxPairs == 2

\* the request_data of one header holds at most MaxHeaderEntries entries
MaxHeaderEntries == 2

\* outside test mode random.getrandbits draws MaxRandomBits bits
MaxRandomBits == 4

\* the peer's private value is a hex string of at most MaxHexLen digits
MaxHexLen == 2

\* live session tokens are validated for the shared secrets 0..MaxSecret
MaxSecret == 22

\* the RSA modulus of the decryption key is ModulusLen bytes long
ModulusLen == 12

RECURSIVE Pow2(_)
Pow2(n) == IF n = 0 THEN 1 ELSE 2 * Pow2(n - 1)

(***************************************************************************)
(* Characters and numbers: hex(), bin(), int(s, 16), ord().                *)
(***************************************************************************)
HexDigits == <<"0", "1", "2", "3", "4", "5", "6", "7",
               "8", "9", "a", "b", "c", "d", "e", "f">>

HexDigitsUpper == <<"0", "1", "2", "3", "4", "5", "6", "7",
                    "8", "9", "A", "B", "C", "D", "E", "F">>

\* hex(x)[2:] of a non-negative x: lowercase, no leading zero
RECURSIVE Hex(_)
Hex(x) == IF x < 16 THEN <<HexDigits[x + 1]>>
          ELSE Hex(x \div 16) \o <<HexDigits[(x % 16) + 1]>>

\* bin(x)[2:] of a non-negative x
RECURSIVE Bin(_)
Bin(x) == IF x < 2 THEN <<HexDigits[x + 1]>>
          ELSE Bin(x \div 2) \o <<HexDigits[(x % 2) + 1]>>

\* the value of each base-16 digit, as int(c, 16) reads it (either case)
DigitTable == [c \in {HexDigits[i] : i \in 1..16} \cup {HexDigitsUpper[i] : i \in 1..16} |->
                CHOOSE d \in 0..15 : HexDigits[d + 1] = c \/ HexDigitsUpper[d + 1] = c]

DigitVal(c) == DigitTable[c]

\* int(s, 16) of a non-empty string of hex digits
RECURSIVE IntOfHex(_)
IntOfHex(s) == IF Len(s) = 1 THEN DigitVal(s[1])
               ELSE 16 * IntOfHex(SubSeq(s, 1, Len(s) - 1)) + DigitVal(s[Len(s)])

\* the printable ASCII characters, code points 32..126 in order (code 96
\* is held by a placeholder that no modelled string contains)
Ascii == <<" ", "!", "\"", "#", "$", "%", "&", "'", "(", ")", "*", "+",
           ",", "-", ".", "/", "0", "1", "2", "3", "4", "5", "6", "7",
           "8", "9", ":", ";", "<", "=", ">", "?", "@", "A", "B", "C",
           "D", "E", "F", "G", "H", "I", "J", "K", "L", "M", "N", "O",
           "P", "Q", "R", "S", "T", "U", "V", "W", "X", "Y", "Z", "[",
           "\\", "]", "^", "_", "(backtick)", "a", "b", "c", "d", "e", "f", "g",
           "h", "i", "j", "k", "l", "m", "n", "o", "p", "q", "r", "s",
           "t", "u", "v", "w", "x", "y", "z", "{", "|", "}", "~">>

\* the code point of each printable ASCII character
OrdTable == [c \in {Ascii[i] : i \in 1..Len(Ascii)} |->
                31 + (CHOOSE i \in 1..Len(Ascii) : Ascii[i] = c)]

\* ord(c) of a printable ASCII character
Ord(c) == OrdTable[c]

\* str < str: lexicographic by code point
RECURSIVE StrLess(_, _)
StrLess(a, b) ==
    IF Len(b) = 0 THEN FALSE
    ELSE IF Len(a) = 0 THEN TRUE
    ELSE IF Ord(a[1]) < Ord(b[1]) THEN TRUE
    ELSE IF Ord(a[1]) > Ord(b[1]) THEN FALSE
    ELSE StrLess(Tail(a), Tail(b))

\* str.join: the strings of a sequence joined by sep
RECURSIVE Join(_, _)
Join(sep, strs) ==
    IF Len(strs) = 0 THEN <<>>
    ELSE IF Len(strs) = 1 THEN strs[1]
    ELSE strs[1] \o sep \o Join(sep, Tail(strs))

(***************************************************************************)
(* urllib.parse.quote and quote_plus, on ASCII text.                       *)
(***************************************************************************)
\* the characters quote never encodes: letters, digits and "_.-~"
AlwaysSafe(c) ==
    \/ Ord(c) \in 48..57
    \/ Ord(c) \in 65..90
    \/ Ord(c) \in 97..122
    \/ c \in {"_", ".", "-", "~"}

\* "%XX", the two uppercase hex digits of the character's code
PercentEncoded(c) ==
    <<"%", HexDigitsUpper[(Ord(c) \div 16) + 1], HexDigitsUpper[(Ord(c) % 16) + 1]>>

\* quote(s, safe): every character outside AlwaysSafe and safe becomes %XX
RECURSIVE QuoteSafe(_, _)
QuoteSafe(s, safe) ==
    IF Len(s) = 0 THEN <<>>
    ELSE (IF AlwaysSafe(s[1]) \/ s[1] \in safe THEN <<s[1]>> ELSE PercentEncoded(s[1]))
         \o QuoteSafe(Tail(s), safe)

\* parse.quote(s): safe defaults to "/"
quote(s) == QuoteSafe(s, {"/"})

\* parse.quote_plus(s): safe defaults to "", a space becomes "+"
quote_plus(s) ==
    IF \E i \in 1..Len(s) : s[i] = " "
    THEN LET quoted == QuoteSafe(s, {" "})
         IN  [i \in 1..Len(quoted) |-> IF quoted[i] = " " THEN "+" ELSE quoted[i]]
    ELSE QuoteSafe(s, {})

(***************************************************************************)
(* to_byte_array                                                           *)
(***************************************************************************)
\* to_byte_array without the "0" that evens the number of hex digits
to_byte_array_unpadded_hex(x) ==
    LET hex_string == Hex(x)
        sign == IF Len(Bin(x)) % 8 = 0 THEN <<0>> ELSE <<>>
    IN  sign \o [i \in 1..((Len(hex_string) + 1) \div 2) |->
                    IntOfHex(SubSeq(hex_string, 2 * i - 1,
                                    IF 2 * i > Len(hex_string) THEN 2 * i - 1 ELSE 2 * i))]

\* to_byte_array without the 0 byte of the sign rule
to_byte_array_no_sign(x) ==
    LET hex_string0 == Hex(x)
        hex_string == IF Len(hex_string0) % 2 > 0 THEN <<"0">> \o hex_string0
                      ELSE hex_string0
    IN  [i \in 1..(Len(hex_string) \div 2) |->
            IntOfHex(SubSeq(hex_string, 2 * i - 1, 2 * i))]

to_byte_array(x) ==
    LET hex_string0 == Hex(x)
        hex_string == IF Len(hex_string0) % 2 > 0 THEN <<"0">> \o hex_string0
                      ELSE hex_string0
        sign == IF Len(Bin(x)) % 8 = 0 THEN <<0>> ELSE <<>>
    IN  sign \o [i \in 1..(Len(hex_string) \div 2) |->
                    IntOfHex(SubSeq(hex_string, 2 * i - 1, 2 * i))]

(***************************************************************************)
(* Python dicts and optional arguments.                                    *)
(***************************************************************************)
\* An optional argument is <<>> for None and <<v>> for the value v.
NoneOpt == <<>>

Some(v) == <<v>>

\* "m or {}" for an optional dict
OrEmpty(m) == IF m = NoneOpt THEN <<>> ELSE m[1]

HasKey(d, k) == \E i \in 1..Len(d) : d[i][1] = k

\* d[k] = v: an existing key keeps its place, a new key goes last
SetItem(d, k, v) ==
    IF HasKey(d, k)
    THEN [i \in 1..Len(d) |-> IF d[i][1] = k THEN <<k, v>> ELSE d[i]]
    ELSE Append(d, <<k, v>>)

\* d.update(e), the items of e taken in e's insertion order
RECURSIVE Update(_, _)
Update(d, e) ==
    IF Len(e) = 0 THEN d
    ELSE Update(SetItem(d, e[1][1], e[1][2]), Tail(e))

\* the same, but a key d already holds keeps d's value
RECURSIVE UpdateKeepFirst(_, _)
UpdateKeepFirst(d, e) ==
    IF Len(e) = 0 THEN d
    ELSE UpdateKeepFirst(IF HasKey(d, e[1][1]) THEN d ELSE Append(d, e[1]), Tail(e))

\* (k1, v1) < (k2, v2) on tuples of strings
ItemLess(p, q) ==
    \/ StrLess(p[1], q[1])
    \/ (p[1] = q[1] /\ StrLess(p[2], q[2]))

\* item put into an ascending list, after the items that are not greater
RECURSIVE Insert(_, _)
Insert(item, lst) ==
    IF Len(lst) = 0 THEN <<item>>
    ELSE IF ItemLess(item, lst[1]) THEN <<item>> \o lst
    ELSE <<lst[1]>> \o Insert(item, Tail(lst))

\* sorted(d.items())
RECURSIVE sorted(_)
sorted(items) ==
    IF Len(items) = 0 THEN <<>>
    ELSE Insert(items[Len(items)], sorted(SubSeq(items, 1, Len(items) - 1)))

(***************************************************************************)
(* generate_base_string                                                    *)
(***************************************************************************)
\* the merge with the priority of the maps reversed: the earliest map wins
base_string_params_first_wins(request_headers, params, form_data, body, extra_headers) ==
    UpdateKeepFirst(UpdateKeepFirst(UpdateKeepFirst(UpdateKeepFirst(
        request_headers, OrEmpty(params)), OrEmpty(form_data)), OrEmpty(body)),
        OrEmpty(extra_headers))

\* the dict of lines 85-89: later maps overwrite earlier ones
base_string_params(request_headers, params, form_data, body, extra_headers) ==
    Update(Update(Update(Update(request_headers, OrEmpty(params)),
                         OrEmpty(form_data)), OrEmpty(body)), OrEmpty(extra_headers))

\* the "&"-joined "k=v" list of lines 90-92, items not sorted
oauth_params_string_unsorted(items) ==
    Join(<<"&">>, [i \in 1..Len(items) |-> items[i][1] \o <<"=">> \o items[i][2]])

\* the "&"-joined "k=v" list of lines 90-92
oauth_params_string(items) ==
    LET ordered == sorted(items)
    IN  Join(<<"&">>, [i \in 1..Len(ordered) |->
                          ordered[i][1] \o <<"=">> \o ordered[i][2]])

generate_base_string(request_method, request_url, request_headers, params, form_data, body, extra_headers, prepend) ==
    LET encoded_request_url == quote_plus(request_url)
        merged == base_string_params(request_headers, params, form_data, body,
                                     extra_headers)
        encoded_oauth_params_string == quote(oauth_params_string(merged))
        base_string == Join(<<"&">>, <<request_method, encoded_request_url,
                                       encoded_oauth_params_string>>)
    IN  IF prepend # NoneOpt THEN prepend[1] \o base_string ELSE base_string

(***************************************************************************)
(* generate_authorization_header_string                                    *)
(***************************************************************************)
\* the list of lines 238-243 with the items in insertion order
authorization_header_keys_unsorted(request_data) ==
    Join(<<",", " ">>, [i \in 1..Len(request_data) |->
            request_data[i][1] \o <<"=", "\"">> \o request_data[i][2] \o <<"\"">>])

\* the list of lines 238-243
authorization_header_keys(request_data) ==
    LET ordered == sorted(request_data)
    IN  Join(<<",", " ">>, [i \in 1..Len(ordered) |->
            ordered[i][1] \o <<"=", "\"">> \o ordered[i][2] \o <<"\"">>])

generate_authorization_header_string(request_data, realm) ==
    <<"O", "A", "u", "t", "h", " ", "r", "e", "a", "l", "m", "=", "\"">> \o realm
        \o <<"\"", ",", " ">> \o authorization_header_keys(request_data)

(***************************************************************************)
(* bytes.fromhex, bytes.hex, base64.b64encode and base64.b64decode.        *)
(***************************************************************************)
\* bytes.fromhex(s) of an even number of hex digits
fromhex(s) == [i \in 1..(Len(s) \div 2) |-> IntOfHex(SubSeq(s, 2 * i - 1, 2 * i))]

\* bytes.hex(): two lowercase hex digits for each byte
RECURSIVE BytesHex(_)
BytesHex(b) ==
    IF Len(b) = 0 THEN <<>>
    ELSE <<HexDigits[(b[1] \div 16) + 1], HexDigits[(b[1] % 16) + 1]>> \o BytesHex(Tail(b))

B64Alphabet == <<"A", "B", "C", "D", "E", "F", "G", "H", "I", "J", "K", "L", "M",
                 "N", "O", "P", "Q", "R", "S", "T", "U", "V", "W", "X", "Y", "Z",
                 "a", "b", "c", "d", "e", "f", "g", "h", "i", "j", "k", "l", "m",
                 "n", "o", "p", "q", "r", "s", "t", "u", "v", "w", "x", "y", "z",
                 "0", "1", "2", "3", "4", "5", "6", "7", "8", "9", "+", "/">>

B64Char(v) == B64Alphabet[v + 1]

B64Table == [c \in {B64Alphabet[i] : i \in 1..64} |->
                (CHOOSE i \in 1..64 : B64Alphabet[i] = c) - 1]

\* base64.b64encode(b): three bytes give four characters, "=" pads the end
RECURSIVE b64encode(_)
b64encode(b) ==
    IF Len(b) = 0 THEN <<>>
    ELSE IF Len(b) = 1 THEN
        <<B64Char(b[1] \div 4), B64Char((b[1] % 4) * 16), "=", "=">>
    ELSE IF Len(b) = 2 THEN
        <<B64Char(b[1] \div 4), B64Char((b[1] % 4) * 16 + (b[2] \div 16)),
          B64Char((b[2] % 16) * 4), "=">>
    ELSE
        <<B64Char(b[1] \div 4), B64Char((b[1] % 4) * 16 + (b[2] \div 16)),
          B64Char((b[2] % 16) * 4 + (b[3] \div 64)), B64Char(b[3] % 64)>>
        \o b64encode(SubSeq(b, 4, Len(b)))

\* base64.b64decode(s) of correctly padded base64 text
RECURSIVE b64decode(_)
b64decode(s) ==
    IF Len(s) = 0 THEN <<>>
    ELSE LET v1 == B64Table[s[1]]
             v2 == B64Table[s[2]]
         IN  <<v1 * 4 + (v2 \div 16)>>
             \o (IF s[3] = "=" THEN <<>>
                 ELSE <<(v2 % 16) * 16 + (B64Table[s[3]] \div 4)>>
                      \o (IF s[4] = "=" THEN <<>>
                          ELSE <<(B64Table[s[3]] % 4) * 64 + B64Table[s[4]]>>))
             \o b64decode(SubSeq(s, 5, Len(s)))

(***************************************************************************)
(* Crypto.Hash.HMAC.  The hash functions are library code; the model keeps *)
(* what the functions of this module rely on: a digest is a fixed-length   *)
(* byte string that is a function of the key, the message and the hash.    *)
(* The digest here is a three-byte keyed checksum with HMAC's two passes.  *)
(***************************************************************************)
SHA1 == "SHA1"

RECURSIVE HashState(_, _)
HashState(h, data) ==
    IF Len(data) = 0 THEN h
    ELSE HashState((h * 31 + data[1] + 1) % 16777216, Tail(data))

Hash(data, digestmod) ==
    LET h == HashState(IF digestmod = SHA1 THEN 160 ELSE 256, data)
    IN  <<h \div 65536, (h \div 256) % 256, h % 256>>

\* HMAC.new(key, digestmod), update(msg), digest()
HMAC_digest(key, msg, digestmod) ==
    Hash([i \in 1..Len(key) |-> (key[i] + 92) % 256]
            \o Hash([i \in 1..Len(key) |-> (key[i] + 54) % 256] \o msg, digestmod),
         digestmod)

\* HMAC.hexdigest()
HMAC_hexdigest(key, msg, digestmod) == BytesHex(HMAC_digest(key, msg, digestmod))

(***************************************************************************)
(* The Diffie-Hellman functions.                                           *)
(***************************************************************************)
NUM_RANDOM_BITS == 256

\* b ** e % m for a small exponent e, by squaring
RECURSIVE PowMod(_, _, _)
PowMod(b, e, m) ==
    IF e = 0 THEN 1 % m
    ELSE LET h == PowMod(b, e \div 2, m)
         IN  IF e % 2 = 0 THEN (h * h) % m ELSE (((h * h) % m) * b) % m

\* pow(b, int(s, 16), m).  Python integers have no width; the 256-bit
\* exponent is never held as a number but read one hex digit at a time,
\* most significant first: b^(16q + d) = (b^q)^16 * b^d.  acc is b^q mod m
\* for the digits q read so far; it is never negative, and testing it makes
\* TLC compute it at each digit instead of nesting 64 products.
RECURSIVE pow_hex_from(_, _, _, _)
pow_hex_from(acc, b, s, m) ==
    IF Len(s) = 0 \/ acc < 0 THEN acc
    ELSE pow_hex_from((PowMod(acc, 16, m) * PowMod(b, DigitVal(s[1]), m)) % m,
                      b, Tail(s), m)

pow_hex(b, s, m) == pow_hex_from(1 % m, b, s, m)

\* the test branch with f'{b:x}' for f'{b:02x}': no zero padding of a byte
generate_dh_random_bytes_unpadded(is_test, random_bits) ==
    IF is_test
    THEN LET BYTE_COUNT == NUM_RANDOM_BITS \div 8
             RECURSIVE join(_)
             join(n) == IF n = 0 THEN <<>> ELSE join(n - 1) \o Hex(n - 1)
         IN  join(BYTE_COUNT)
    ELSE Hex(random_bits)

\* generate_dh_random_bytes(is_test); random_bits is what random.getrandbits
\* returns when is_test is false
generate_dh_random_bytes(is_test, random_bits) ==
    IF is_test
    THEN LET BYTE_COUNT == NUM_RANDOM_BITS \div 8
         IN  BytesHex([i \in 1..BYTE_COUNT |-> i - 1])
    ELSE Hex(random_bits)

\* the challenge written in decimal, str(dh_challenge), instead of in hex
generate_dh_challenge_decimal(dh_prime, dh_random, dh_generator) ==
    LET dh_challenge == pow_hex(dh_generator, dh_random, dh_prime)
        RECURSIVE dec(_)
        dec(x) == IF x < 10 THEN <<HexDigits[x + 1]>>
                  ELSE dec(x \div 10) \o <<HexDigits[(x % 10) + 1]>>
    IN  dec(dh_challenge)

generate_dh_challenge(dh_prime, dh_random, dh_generator) ==
    LET dh_challenge == pow_hex(dh_generator, dh_random, dh_prime)
    IN  Hex(dh_challenge)

get_access_token_secret_bytes(access_token_secret) == fromhex(access_token_secret)

calculate_live_session_token(dh_prime, dh_random_value, dh_response, prepend) ==
    LET access_token_secret_bytes == get_access_token_secret_bytes(prepend)
        B == IntOfHex(dh_response)
        K == pow_hex(B, dh_random_value, dh_prime)
    IN  b64encode(HMAC_digest(to_byte_array(K), access_token_secret_bytes, SHA1))

(***************************************************************************)
(* The codec specification: to_byte_array applied to every small integer. *)
(***************************************************************************)
InitCodec ==
    /\ pc = "call"
    /\ fn = "to_byte_array"
    /\ args \in [x : 0..(Pow2(MaxBits) - 1)]
    /\ ret = None

ToByteArray ==
    /\ pc = "call"
    /\ fn = "to_byte_array"
    /\ ret' = to_byte_array(args.x)
    /\ pc' = "done"
    /\ UNCHANGED <<fn, args>>

NextCodec == ToByteArray

SpecCodec == InitCodec /\ [][NextCodec]_vars

(***************************************************************************)
(* Claims about to_byte_array.                                             *)
(***************************************************************************)
\* the number of bits of x, int.bit_length(): 0 for 0
RECURSIVE BitLength(_)
BitLength(x) == IF x = 0 THEN 0 ELSE 1 + BitLength(x \div 2)

\* a byte sequence read as a big-endian unsigned integer
RECURSIVE FromBytes(_)
FromBytes(b) == IF Len(b) = 0 THEN 0
                ELSE 256 * FromBytes(SubSeq(b, 1, Len(b) - 1)) + b[Len(b)]

ByteArrayDone == pc = "done" /\ fn = "to_byte_array"

\* C1: sign-padding law.  When the bit length of x is a multiple of 8 the
\* first byte of to_byte_array(x) is 0x00; for every other x the result has
\* no leading zero byte and ceil(bitlength(x) / 8) bytes.
C1_SignPadding ==
    ByteArrayDone =>
        IF BitLength(args.x) % 8 = 0
        THEN Len(ret) >= 1 /\ ret[1] = 0
        ELSE /\ ret[1] # 0
             /\ Len(ret) = (BitLength(args.x) + 7) \div 8

\* a 16-bit x, 0x80ff, was encoded with the 0x00 in front
C1_Witness ==
    /\ ByteArrayDone
    /\ args.x = 33023
    /\ ret = <<0, 128, 255>>

\* C10: to_byte_array is lossless.  Reading the result as a big-endian
\* unsigned integer gives x back, so different x have different encodings.
C10_Lossless ==
    ByteArrayDone => FromBytes(ret) = args.x

\* an x with an odd number of hex digits, 0x100, was encoded
C10_Witness ==
    /\ ByteArrayDone
    /\ args.x = 256
    /\ ret = <<1, 0>>

(***************************************************************************)
(* The base-string specification: generate_base_string and                 *)
(* generate_authorization_header_string applied to small requests.         *)
(***************************************************************************)
Keys == {<<"a">>, <<"a", "b">>, <<"B">>}

Values == {<<"1", "/">>, <<"x", " ", "+", "&", "=", "~", "%">>}

Methods == {<<"G", "E", "T">>, <<"P", "O", "S", "T">>}

Urls == {<<"h", ":", "/", "p">>, <<"h", ":", "/", "p", " ", "q", "+", "~">>}

Prepends == {NoneOpt, Some(<<"0", "a">>)}

Realms == {<<"l", "i", "m", "i", "t", "e", "d", "_", "p", "o", "a">>,
           <<"t", "e", "s", "t", "_", "r", "e", "a", "l", "m">>}

\* insertions <<map, key, value>>, no key inserted twice into one map; the
\* maps are numbered in the order in which the code merges them
Insertions(n) ==
    {e \in UNION {[1..m -> (1..5) \X Keys \X Values] : m \in 0..n} :
        \A i, j \in 1..Len(e) : (e[i][1] = e[j][1] /\ e[i][2] = e[j][2]) => i = j}

\* the dict that the insertions into map i build
RECURSIVE MapOf(_, _)
MapOf(e, i) ==
    IF Len(e) = 0 THEN <<>>
    ELSE (IF e[1][1] = i THEN <<(<<e[1][2], e[1][3]>>)>> ELSE <<>>) \o MapOf(Tail(e), i)

\* a caller passes None for a map it has nothing to put in
Opt(m) == IF Len(m) = 0 THEN NoneOpt ELSE Some(m)

\* dicts of at most n entries over Keys and Values, in every insertion order
Dicts(n) ==
    {d \in UNION {[1..m -> Keys \X Values] : m \in 0..n} :
        \A i, j \in 1..Len(d) : d[i][1] = d[j][1] => i = j}

InitBase ==
    /\ pc = "call"
    /\ ret = None
    /\ \/ /\ fn = "generate_base_string"
          /\ \E e \in Insertions(MaxPairs), m \in Methods, u \in Urls, p \in Prepends :
                args = [request_method |-> m, request_url |-> u,
                        request_headers |-> MapOf(e, 1),
                        params |-> Opt(MapOf(e, 2)),
                        form_data |-> Opt(MapOf(e, 3)),
                        body |-> Opt(MapOf(e, 4)),
                        extra_headers |-> Opt(MapOf(e, 5)),
                        prepend |-> p]
       \/ /\ fn = "generate_authorization_header_string"
          /\ args \in [request_data : Dicts(MaxHeaderEntries), realm : Realms]

GenerateBaseString ==
    /\ pc = "call"
    /\ fn = "generate_base_string"
    /\ ret' = generate_base_string(args.request_method, args.request_url,
                                   args.request_headers, args.params, args.form_data,
                                   args.body, args.extra_headers, args.prepend)
    /\ pc' = "done"
    /\ UNCHANGED <<fn, args>>

GenerateAuthorizationHeaderString ==
    /\ pc = "call"
    /\ fn = "generate_authorization_header_string"
    /\ ret' = generate_authorization_header_string(args.request_data, args.realm)
    /\ pc' = "done"
    /\ UNCHANGED <<fn, args>>

NextBase == GenerateBaseString \/ GenerateAuthorizationHeaderString

SpecBase == InitBase /\ [][NextBase]_vars

(***************************************************************************)
(* Claims about generate_base_string and the header.                       *)
(***************************************************************************)
BaseDone == pc = "done" /\ fn = "generate_base_string"

HeaderDone == pc = "done" /\ fn = "generate_authorization_header_string"

\* the five maps of the call in state, None read as the empty dict
ArgMaps == <<args.request_headers, OrEmpty(args.params), OrEmpty(args.form_data),
             OrEmpty(args.body), OrEmpty(args.extra_headers)>>

\* the <<key, value>> pairs of a dict, as a set
ItemSet(d) == {d[i] : i \in 1..Len(d)}

AllItems == UNION {ItemSet(ArgMaps[i]) : i \in 1..5}

AllKeys == {p[1] : p \in AllItems}

\* some key sits in two of the maps
Collision ==
    \E i, j \in 1..5 : i < j /\ \E k \in AllKeys : HasKey(ArgMaps[i], k) /\ HasKey(ArgMaps[j], k)

\* the elements of a finite set in some fixed order
RECURSIVE SeqOf(_)
SeqOf(S) ==
    IF S = {} THEN <<>>
    ELSE LET x == CHOOSE x \in S : TRUE IN <<x>> \o SeqOf(S \ {x})

Reverse(q) == [i \in 1..Len(q) |-> q[Len(q) + 1 - i]]

\* C3: the base string does not depend on insertion order.  With no key in
\* more than one map, the call returns what it returns for the same method,
\* URL and prefix when the same pairs are all put into request_headers in one
\* order, or all put into extra_headers in the opposite order; so any two
\* distributions of the same pairs give the same base string.
C3_OrderIndependent ==
    (BaseDone /\ ~Collision) =>
        /\ ret = generate_base_string(args.request_method, args.request_url,
                    SeqOf(AllItems), NoneOpt, NoneOpt, NoneOpt, NoneOpt, args.prepend)
        /\ ret = generate_base_string(args.request_method, args.request_url,
                    <<>>, NoneOpt, NoneOpt, NoneOpt, Some(Reverse(SeqOf(AllItems))),
                    args.prepend)

\* a call whose pairs are spread over two maps, the greater key inserted first
C3_Witness ==
    /\ BaseDone
    /\ ~Collision
    /\ args.request_headers = <<(<<(<<"a", "b">>), (<<"1", "/">>)>>)>>
    /\ args.extra_headers = Some(<<(<<(<<"B">>), (<<"1", "/">>)>>)>>)
    /\ args.prepend = NoneOpt
    /\ args.request_method = <<"G", "E", "T">>
    /\ args.request_url = <<"h", ":", "/", "p">>
    /\ ret = <<"G", "E", "T", "&", "h", "%", "3", "A", "%", "2", "F", "p", "&",
               "B", "%", "3", "D", "1", "/", "%", "2", "6", "a", "b", "%", "3", "D", "1", "/">>

\* the value of key k in the latest of the five maps that holds k
WinningValue(k) ==
    LET last == CHOOSE i \in 1..5 :
                    /\ HasKey(ArgMaps[i], k)
                    /\ \A j \in 1..5 : HasKey(ArgMaps[j], k) => j <= i
        at == CHOOSE n \in 1..Len(ArgMaps[last]) : ArgMaps[last][n][1] = k
    IN  ArgMaps[last][at][2]

\* the pairs of a set, the smallest key first
RECURSIVE Ascending(_)
Ascending(S) ==
    IF S = {} THEN <<>>
    ELSE LET lo == CHOOSE p \in S : \A q \in S : p = q \/ StrLess(p[1], q[1])
         IN  <<lo>> \o Ascending(S \ {lo})

\* "k=v" for each pair of a sequence
Rendered(items) == [i \in 1..Len(items) |-> items[i][1] \o <<"=">> \o items[i][2]]

PrependText == IF args.prepend = NoneOpt THEN <<>> ELSE args.prepend[1]

\* C4: on a key collision the latest map wins.  When a key occurs in more
\* than one map, the base string is the one built from each key exactly once,
\* in ascending key order, with the value of the latest map (in the order
\* request_headers, params, form_data, body, extra_headers) that holds it.
C4_LatestMapWins ==
    (BaseDone /\ Collision) =>
        ret = PrependText \o args.request_method \o <<"&">>
                \o quote_plus(args.request_url) \o <<"&">>
                \o quote(Join(<<"&">>,
                     Rendered(Ascending({<<k, WinningValue(k)>> : k \in AllKeys}))))

\* request_headers and body both hold key "a", with different values
C4_Witness ==
    /\ BaseDone
    /\ args.request_headers = <<(<<(<<"a">>), (<<"1", "/">>)>>)>>
    /\ args.body = Some(<<(<<(<<"a">>), (<<"x", " ", "+", "&", "=", "~", "%">>)>>)>>)
    /\ args.prepend = NoneOpt
    /\ args.request_method = <<"G", "E", "T">>
    /\ args.request_url = <<"h", ":", "/", "p">>
    /\ ret = <<"G", "E", "T", "&", "h", "%", "3", "A", "%", "2", "F", "p", "&",
               "a", "%", "3", "D", "x", "%", "2", "0", "%", "2", "B",
               "%", "2", "6", "%", "3", "D", "~", "%", "2", "5">>

\* the unreserved characters of RFC 3986
Unreserved(c) ==
    \/ Ord(c) \in 48..57
    \/ Ord(c) \in 65..90
    \/ Ord(c) \in 97..122
    \/ c \in {"-", ".", "_", "~"}

\* Strict-Encode: everything but the unreserved characters becomes %XX
RECURSIVE StrictEncode(_)
StrictEncode(s) ==
    IF Len(s) = 0 THEN <<>>
    ELSE (IF Unreserved(s[1]) THEN <<s[1]>> ELSE PercentEncoded(s[1]))
         \o StrictEncode(Tail(s))

\* Form-Encode: Strict-Encode, but a space becomes "+"
RECURSIVE FormEncode(_)
FormEncode(s) ==
    IF Len(s) = 0 THEN <<>>
    ELSE (IF s[1] = " " THEN <<"+">>
          ELSE IF Unreserved(s[1]) THEN <<s[1]>> ELSE PercentEncoded(s[1]))
         \o FormEncode(Tail(s))

\* C8: the parameter segment of the base string is the Strict-Encode of the
\* "&"-joined key=value string (every character that is not unreserved is
\* percent-encoded, "/" included, a space becomes %20), and the URL segment
\* is the Form-Encode of the URL (a space becomes "+").
C8_StrictEncodedParams ==
    BaseDone =>
        ret = PrependText \o args.request_method \o <<"&">>
                \o FormEncode(args.request_url) \o <<"&">>
                \o StrictEncode(Join(<<"&">>,
                     Rendered(Ascending({<<k, WinningValue(k)>> : k \in AllKeys}))))

\* k="v" for each pair of a sequence
Quoted(items) ==
    [i \in 1..Len(items) |-> items[i][1] \o <<"=", "\"">> \o items[i][2] \o <<"\"">>]

\* C9: the header is 'OAuth realm="<realm>", ' followed by key="value" for
\* each entry of request_data, each key once, in ascending key order, joined
\* by ", "; it is the same for every insertion order of request_data.
C9_HeaderSorted ==
    HeaderDone =>
        ret = <<"O", "A", "u", "t", "h", " ", "r", "e", "a", "l", "m", "=", "\"">>
                \o args.realm \o <<"\"", ",", " ">>
                \o Join(<<",", " ">>, Quoted(Ascending(ItemSet(args.request_data))))

\* a header whose request_data was filled with the greater key first
C9_Witness ==
    /\ HeaderDone
    /\ args.request_data = <<(<<(<<"a">>), (<<"1", "/">>)>>), (<<(<<"B">>), (<<"1", "/">>)>>)>>
    /\ args.realm = <<"t", "e", "s", "t", "_", "r", "e", "a", "l", "m">>
    /\ ret = <<"O", "A", "u", "t", "h", " ", "r", "e", "a", "l", "m", "=", "\"",
               "t", "e", "s", "t", "_", "r", "e", "a", "l", "m", "\"", ",", " ",
               "B", "=", "\"", "1", "/", "\"", ",", " ", "a", "=", "\"", "1", "/", "\"">>

(***************************************************************************)
(* The handshake specification: a client draws its private value, both    *)
(* sides compute their public values with generate_dh_challenge, and both *)
(* derive the live session token with calculate_live_session_token.       *)
(***************************************************************************)
DhPrimes == {2, 5, 7, 11, 23}

DhGenerator == 2

\* the hex digits the peer's private value is written with
PeerDigits == {"0", "1", "a", "F"}

PeerRandoms == UNION {[1..n -> PeerDigits] : n \in 1..MaxHexLen}

\* decrypted access token secrets, as hex
PrependsHex == {<<"0", "a">>, <<"f", "f", "0", "1">>}

InitDH ==
    /\ pc = "call"
    /\ fn = "handshake"
    /\ args \in [dh_prime : DhPrimes, is_test : BOOLEAN, peer_random : PeerRandoms,
                 prepend : PrependsHex]
    /\ ret = None

GenerateDhRandomBytes ==
    /\ pc = "call"
    /\ fn = "handshake"
    /\ \E random_bits \in 0..(Pow2(MaxRandomBits) - 1) :
          ret' = [dh_random |-> generate_dh_random_bytes(args.is_test, random_bits)]
    /\ pc' = "random"
    /\ UNCHANGED <<fn, args>>

\* the client computes its challenge, the peer its response, with the same function
GenerateDhChallenge ==
    /\ pc = "random"
    /\ fn = "handshake"
    /\ ret' = [dh_random |-> ret.dh_random,
               dh_challenge |-> generate_dh_challenge(args.dh_prime, ret.dh_random,
                                                      DhGenerator),
               dh_response |-> generate_dh_challenge(args.dh_prime, args.peer_random,
                                                     DhGenerator)]
    /\ pc' = "challenge"
    /\ UNCHANGED <<fn, args>>

CalculateLiveSessionToken ==
    /\ pc = "challenge"
    /\ fn = "handshake"
    /\ ret' = [dh_random |-> ret.dh_random,
               dh_challenge |-> ret.dh_challenge,
               dh_response |-> ret.dh_response,
               live_session_token |->
                   calculate_live_session_token(args.dh_prime, ret.dh_random,
                                                ret.dh_response, args.prepend),
               peer_live_session_token |->
                   calculate_live_session_token(args.dh_prime, args.peer_random,
                                                ret.dh_challenge, args.prepend)]
    /\ pc' = "done"
    /\ UNCHANGED <<fn, args>>

NextDH == GenerateDhRandomBytes \/ GenerateDhChallenge \/ CalculateLiveSessionToken

SpecDH == InitDH /\ [][NextDH]_vars

(***************************************************************************)
(* Claims about the handshake.                                             *)
(***************************************************************************)
HandshakeDone == pc = "done" /\ fn = "handshake"

\* C5: Diffie-Hellman agreement through the module's own encodings.  With
\* A = generate_dh_challenge(p, a, 2) and B = generate_dh_challenge(p, b, 2),
\* pow(int(B, 16), a, p) = pow(int(A, 16), b, p), and both sides calculate
\* the same live session token.
C5_DhAgreement ==
    HandshakeDone =>
        /\ pow_hex(IntOfHex(ret.dh_response), ret.dh_random, args.dh_prime)
             = pow_hex(IntOfHex(ret.dh_challenge), args.peer_random, args.dh_prime)
        /\ ret.live_session_token = ret.peer_live_session_token

\* a handshake modulo 23 whose public values, 0x10 and 0x12, are two hex
\* digits long and differ
C5_Witness ==
    /\ HandshakeDone
    /\ args.dh_prime = 23
    /\ ret.dh_random = <<"4">>
    /\ args.peer_random = <<"1", "1">>
    /\ ret.dh_challenge = <<"1", "0">>
    /\ ret.dh_response = <<"1", "2">>
    /\ ret.live_session_token = ret.peer_live_session_token

\* hex(int(s, 16))[2:]: s in lower case without its leading zeros
RECURSIVE Canonical(_)
Canonical(s) ==
    IF Len(s) > 1 /\ s[1] = "0" THEN Canonical(Tail(s))
    ELSE [i \in 1..Len(s) |-> HexDigits[DigitVal(s[i]) + 1]]

TestVectorDone ==
    /\ fn = "handshake"
    /\ pc \in {"challenge", "done"}
    /\ args.is_test
    /\ args.dh_prime = 23

\* C6 as stated: with dh_prime = 23 and dh_generator = 2 the test-mode
\* private value is 0x1f, that is random = 31, and the challenge is the hex
\* of pow(2, 31, 23).
C6_TestVectorIs31 ==
    TestVectorDone =>
        /\ Canonical(ret.dh_random) = <<"1", "f">>
        /\ ret.dh_challenge = Hex(PowMod(2, 31, 23))

\* C6 as the code has it: the test-mode private value is the 64 hex digits
\* of the bytes 0x00..0x1f, 000102...1e1f, which is not the number 31, and
\* with dh_prime = 23 and dh_generator = 2 its challenge is "3", the hex of
\* pow(2, 0x000102...1e1f, 23), where pow(2, 31, 23) is 6.
C6_TestVector ==
    TestVectorDone =>
        /\ Len(ret.dh_random) = 64
        /\ \A n \in 0..31 :
              /\ ret.dh_random[2 * n + 1] = HexDigits[(n \div 16) + 1]
              /\ ret.dh_random[2 * n + 2] = HexDigits[(n % 16) + 1]
        /\ Canonical(ret.dh_random) # <<"1", "f">>
        /\ ret.dh_challenge = <<"3">>
        /\ Hex(PowMod(2, 31, 23)) = <<"6">>

\* a test-mode handshake modulo 23 has computed its challenge
C6_Witness ==
    /\ TestVectorDone
    /\ pc = "challenge"
    /\ ret.dh_random[63] = "1"
    /\ ret.dh_random[64] = "f"
    /\ ret.dh_challenge = <<"3">>

(***************************************************************************)
(* validate_live_session_token                                             *)
(***************************************************************************)
\* the text of a str in lower case, for the hex digits
Lower(s) == [i \in 1..Len(s) |->
                IF \E d \in 1..16 : HexDigitsUpper[d] = s[i]
                THEN HexDigits[CHOOSE d \in 1..16 : HexDigitsUpper[d] = s[i]]
                ELSE s[i]]

\* the comparison of line 227 done without regard to case
validate_live_session_token_ignoring_case(live_session_token, live_session_token_signature, consumer_key) ==
    LET calculated_lst_digest ==
            HMAC_hexdigest(b64decode(live_session_token),
                           [i \in 1..Len(consumer_key) |-> Ord(consumer_key[i])], SHA1)
    IN  Lower(calculated_lst_digest) = Lower(live_session_token_signature)

\* consumer_key is the str as its UTF-8 bytes, one code per ASCII character
validate_live_session_token(live_session_token, live_session_token_signature, consumer_key) ==
    LET calculated_lst_digest ==
            HMAC_hexdigest(b64decode(live_session_token),
                           [i \in 1..Len(consumer_key) |-> Ord(consumer_key[i])], SHA1)
    IN  calculated_lst_digest = live_session_token_signature

(***************************************************************************)
(* The validation specification: a live session token is validated        *)
(* against the signature a server sent, and against that signature with   *)
(* one character changed on the way.                                       *)
(***************************************************************************)
ConsumerKeys == {<<"T", "E", "S", "T", "C", "O", "N", "S">>, <<"k", "1">>}

\* the live session tokens of the shared secrets 0..MaxSecret
LiveSessionTokens ==
    {b64encode(HMAC_digest(to_byte_array(K), fromhex(p), SHA1)) :
        K \in 0..MaxSecret, p \in PrependsHex}

\* the characters a signature may be written with
SignatureChars == {HexDigits[i] : i \in 1..16} \cup {HexDigitsUpper[i] : i \in 1..16}

\* what the server sends for a token: its digest, or that digest in upper
\* case, cut short, or lengthened
ServerSignatures(lst, ck) ==
    LET sig == HMAC_hexdigest(b64decode(lst), [i \in 1..Len(ck) |-> Ord(ck[i])], SHA1)
    IN  {sig,
         [i \in 1..Len(sig) |-> HexDigitsUpper[DigitVal(sig[i]) + 1]],
         SubSeq(sig, 1, Len(sig) - 1),
         sig \o <<"0">>}

InitValidate ==
    /\ pc = "call"
    /\ fn = "validate_live_session_token"
    /\ \E lst \in LiveSessionTokens, ck \in ConsumerKeys :
          \E sig \in ServerSignatures(lst, ck) :
             args = [live_session_token |-> lst, consumer_key |-> ck,
                     live_session_token_signature |-> sig, tampered |-> FALSE]
    /\ ret = None

ValidateLiveSessionToken ==
    /\ pc = "call"
    /\ fn = "validate_live_session_token"
    /\ ret' = validate_live_session_token(args.live_session_token,
                                          args.live_session_token_signature,
                                          args.consumer_key)
    /\ pc' = "done"
    /\ UNCHANGED <<fn, args>>

\* one character of a signature that validated is replaced by another
\* character, and the changed signature goes to validation
TamperSignature ==
    /\ pc = "done"
    /\ fn = "validate_live_session_token"
    /\ ret = TRUE
    /\ ~args.tampered
    /\ \E i \in 1..Len(args.live_session_token_signature), c \in SignatureChars :
          /\ c # args.live_session_token_signature[i]
          /\ args' = [args EXCEPT !.live_session_token_signature[i] = c,
                                  !.tampered = TRUE]
    /\ ret' = None
    /\ pc' = "call"
    /\ UNCHANGED fn

NextValidate == ValidateLiveSessionToken \/ TamperSignature

SpecValidate == InitValidate /\ [][NextValidate]_vars

ValidateDone == pc = "done" /\ fn = "validate_live_session_token"

\* C2: validate_live_session_token returns true only for the signature that
\* is, character for character and in the same case, the hex digest of
\* HMAC-SHA1(key = decoded token, message = consumer key); and a signature
\* that validated does not validate once one of its characters is replaced.
C2_ExactMatchOnly ==
    ValidateDone =>
        /\ ret = TRUE =>
              /\ args.live_session_token_signature
                    = BytesHex(HMAC_digest(b64decode(args.live_session_token),
                                [i \in 1..Len(args.consumer_key) |->
                                    Ord(args.consumer_key[i])], SHA1))
              /\ \A i \in 1..Len(args.live_session_token_signature) :
                    args.live_session_token_signature[i] \in {HexDigits[d] : d \in 1..16}
        /\ args.tampered => ret = FALSE

\* a signature that validated was changed in the case of one letter only,
\* and was rejected
C2_Witness ==
    /\ ValidateDone
    /\ args.tampered
    /\ ret = FALSE
    /\ \E i \in 1..Len(args.live_session_token_signature) :
          /\ args.live_session_token_signature[i] \in {"A", "B", "C", "D", "E", "F"}
          /\ validate_live_session_token(args.live_session_token,
                [args.live_session_token_signature EXCEPT
                    ![i] = HexDigits[DigitVal(args.live_session_token_signature[i]) + 1]],
                args.consumer_key)

(***************************************************************************)
(* calculate_live_session_token_prepend.  RSA is library code.  The model *)
(* keeps the decryption of Crypto.Cipher.PKCS1_v1_5 as the library        *)
(* documents it: a ciphertext that is not as long as the modulus raises   *)
(* ValueError, the private-key operation gives the encoded message        *)
(* 00 02 PS 00 M, and when that padding is wrong decrypt returns the      *)
(* sentinel it was given.  The private-key operation itself is replaced   *)
(* by a keyed permutation of the blocks of ModulusLen bytes.              *)
(***************************************************************************)
Return(v) == [kind |-> "return", value |-> v]

Raise(e) == [kind |-> "raise", value |-> e]

\* the key's private operation on a ciphertext block, and the public one
RSADP(key, c) == [i \in 1..Len(c) |-> (c[i] + key.d) % 256]

RSAEP(key, em) == [i \in 1..Len(em) |-> (em[i] + 256 - key.d) % 256]

\* the place of the 00 that ends the padding string PS, 0 when there is none
Separator(em) ==
    IF \E i \in 3..Len(em) : em[i] = 0
    THEN CHOOSE i \in 3..Len(em) : em[i] = 0 /\ \A j \in 3..(i - 1) : em[j] # 0
    ELSE 0

\* 00 02, then at least eight non-zero bytes, then 00
PaddingOk(em) == em[1] = 0 /\ em[2] = 2 /\ Separator(em) >= 11

\* PKCS1_v1_5_Cipher.new(key).decrypt(ciphertext, sentinel)
PKCS1_v1_5_decrypt(key, ciphertext, sentinel) ==
    IF Len(ciphertext) # key.size_in_bytes THEN Raise("ValueError")
    ELSE LET em == RSADP(key, ciphertext)
         IN  IF PaddingOk(em)
             THEN Return(Some(SubSeq(em, Separator(em) + 1, Len(em))))
             ELSE Return(sentinel)

\* decrypt is given the sentinel None and returns it when the padding is
\* wrong; None has no hex(), and evaluating None.hex() raises AttributeError
calculate_live_session_token_prepend(access_token_secret, private_encryption_key) ==
    LET access_token_secret_bytes == b64decode(access_token_secret)
        decrypted_access_token_secret ==
            PKCS1_v1_5_decrypt(private_encryption_key, access_token_secret_bytes, NoneOpt)
    IN  IF decrypted_access_token_secret.kind = "raise"
        THEN decrypted_access_token_secret
        ELSE IF decrypted_access_token_secret.value = NoneOpt
        THEN Raise("AttributeError")
        ELSE Return(BytesHex(decrypted_access_token_secret.value[1]))

(***************************************************************************)
(* The decryption specification: access token secrets that a server       *)
(* encrypted for the configured key, well padded or not, decrypted with   *)
(* that key or with another one.                                           *)
(***************************************************************************)
RsaKeys == {[size_in_bytes |-> ModulusLen, d |-> 77],
            [size_in_bytes |-> ModulusLen, d |-> 200]}

ConfiguredKey == [size_in_bytes |-> ModulusLen, d |-> 77]

\* encoded messages: the two leading bytes right or wrong, every placing of
\* zero and non-zero bytes after them
EncodedMessages ==
    {<<b0, b1>> \o body : b0 \in {0, 1}, b1 \in {2, 1},
                           body \in [1..(ModulusLen - 2) -> {0, 171}]}

InitDecrypt ==
    /\ pc = "call"
    /\ fn = "calculate_live_session_token_prepend"
    /\ \E em \in EncodedMessages, key \in RsaKeys, extra \in {<<>>, <<5>>} :
          args = [access_token_secret |-> b64encode(RSAEP(ConfiguredKey, em) \o extra),
                  private_encryption_key |-> key]
    /\ ret = None

CalculateLiveSessionTokenPrepend ==
    /\ pc = "call"
    /\ fn = "calculate_live_session_token_prepend"
    /\ ret' = calculate_live_session_token_prepend(args.access_token_secret,
                                                   args.private_encryption_key)
    /\ pc' = "done"
    /\ UNCHANGED <<fn, args>>

NextDecrypt == CalculateLiveSessionTokenPrepend

SpecDecrypt == InitDecrypt /\ [][NextDecrypt]_vars

PrependDone == pc = "done" /\ fn = "calculate_live_session_token_prepend"

\* the decoded secret has the length of the modulus and its padding is wrong
PaddingFails ==
    LET c == b64decode(args.access_token_secret)
    IN  /\ Len(c) = args.private_encryption_key.size_in_bytes
        /\ ~PaddingOk(RSADP(args.private_encryption_key, c))

\* C7: whenever the PKCS#1 v1.5 padding of the decoded access token secret
\* is wrong, calculate_live_session_token_prepend fails with
\* DecryptionError: it returns no prepend and raises nothing else.
C7_DecryptionError ==
    (PrependDone /\ PaddingFails) => ret = Raise("DecryptionError")

====
